---- MODULE Spec2Model ----
(***************************************************************************)
(* A model of the DiffX section parser of src/src/lib.rs.                  *)
(*                                                                         *)
(* Bytes are integers 0..255, the input is a sequence of bytes, and a      *)
(* position is the number of bytes in front of it (the byte at position p  *)
(* is input[p + 1]).  The leaf parsers (option_str, option, option_list,   *)
(* section_header) are operators that return what the combinators of the   *)
(* source return: success or failure, whether input was consumed, the new  *)
(* position, and the position of the error.  The recursion of section and  *)
(* section_content is a state machine over an explicit stack of the        *)
(* sections whose child loop is running.                                   *)
(***************************************************************************)
EXTENDS Integers, Sequences, FiniteSets, TLC

VARIABLES
  input,   \* the byte buffer handed to the parser
  pc,      \* "call": a section call is about to run; "ret": one has returned;
           \* "done": parse has returned; "header", "header_done": header harness
  arg,     \* the arguments of the section call: [depth, parent_encoding]
  pos,     \* the position of the stream the running parser holds
  stack,   \* the sections whose many1 loop is running, innermost last
  ret,     \* the result of the section call that returned last
  call,    \* the arguments and start position of that call
  result   \* what parse returned

vars == <<input, pc, arg, pos, stack, ret, call, result>>

\* The byte literals of the grammar.
HASH == 35
DOT == 46
COLON == 58
SPACE == 32
NEWLINE == 10
EQUALS == 61
COMMA == 44

kEncoding == <<101, 110, 99, 111, 100, 105, 110, 103>>
kContentLength == <<99, 111, 110, 116, 101, 110, 116, 45, 108, 101, 110, 103, 116, 104>>
vUtf8 == <<117, 116, 102, 45, 56>>
vBinary == <<98, 105, 110, 97, 114, 121>>

--------------------------------------------------------------------------
\* Results of a parser: Ok carries the value and the position after it, Err
\* the kind and position of the error; consumed is combine's Consumed/Empty.

Ok(v, p, c) == [ok |-> TRUE, consumed |-> c, value |-> v, pos |-> p]

Err(kind, p, c) == [ok |-> FALSE, consumed |-> c, kind |-> kind, errpos |-> p]

\* The element of a set of one element.  An operator below that passes a
\* result on writes Only({F(r) : r \in {G}}) for F(G), so that G is worked
\* out once however often F reads it.
Only(S) == CHOOSE r \in S : TRUE

\* Some(b) when the stream has a byte at position p.
HasByte(s, p, b) == p < Len(s) /\ s[p + 1] = b

\* take_while: the end of the longest run of bytes of the set F from p.
take_while(F, s, p) ==
  CHOOSE q \in p..Len(s) :
    /\ \A i \in (p + 1)..q : s[i] \in F
    /\ (q = Len(s) \/ s[q + 1] \notin F)

is_option_char(c) ==
  \/ c \in 97..122
  \/ c \in 65..90
  \/ c \in 48..57
  \/ c = 45
  \/ c = 95
  \/ c = 46

is_section_header_char(c) ==
  \/ c \in 97..122
  \/ c \in 65..90
  \/ c = 45

Bytes == 0..255

OptionChars == {c \in Bytes : is_option_char(c)}

SectionHeaderChars == {c \in Bytes : is_section_header_char(c)}

\* A collect that keeps the first tuple of a key.
collect_first(tuples) ==
  [k \in {tuples[i][1] : i \in DOMAIN tuples} |->
     tuples[CHOOSE i \in DOMAIN tuples :
              /\ tuples[i][1] = k
              /\ \A j \in DOMAIN tuples : tuples[j][1] = k => i <= j][2]]

\* HashMap::from_iter over a Vec of (key, value) tuples: a later tuple
\* overwrites an earlier one with the same key.
collect(tuples) ==
  [k \in {tuples[i][1] : i \in DOMAIN tuples} |->
     tuples[CHOOSE i \in DOMAIN tuples :
              /\ tuples[i][1] = k
              /\ \A j \in DOMAIN tuples : tuples[j][1] = k => j <= i][2]]

EmptyMap == [k \in {} |-> <<>>]

\* take_while1(is_option_char): a non-empty run, else an empty error.
option_str(s, p) ==
  LET q == take_while(OptionChars, s, p) IN
  IF q = p THEN Err("Unexpected", p, FALSE)
  ELSE Ok(SubSeq(s, p + 1, q), q, TRUE)

\* The value of an option whose key k is parsed and followed by '='.
option_value(k, v) ==
  IF ~v.ok THEN Err("Unexpected", v.errpos, TRUE)
  ELSE Ok(<<k.value, v.value>>, v.pos, TRUE)

\* An option whose key parsed as k: byte('=').with(option_str).
option_key(s, k) ==
  IF ~k.ok THEN k
  ELSE IF ~HasByte(s, k.pos, EQUALS) THEN Err("Unexpected", k.pos, TRUE)
  ELSE Only({option_value(k, v) : v \in {option_str(s, k.pos + 1)}})

\* (option_str, byte('=').with(option_str))
option(s, p) == Only({option_key(s, k) : k \in {option_str(s, p)}})

\* sep_by(option, byte(',')) as the Vec of its tuples: the options in front
\* of position p are acc, and o is the option parsed after the separator.
\* A separator without an option after it is an error.
RECURSIVE sep_by_rest(_, _, _)
sep_by_rest(s, acc, o) ==
  IF ~o.ok THEN Err("Unexpected", o.errpos, TRUE)
  ELSE IF ~HasByte(s, o.pos, COMMA) THEN Ok(Append(acc, o.value), o.pos, TRUE)
  ELSE Only({sep_by_rest(s, Append(acc, o.value), n) :
               n \in {option(s, o.pos + 1)}})

\* sep_by on the first option o parsed at p: no option at all is an empty
\* list, parsed without consuming.
sep_by(s, p, o) ==
  IF ~o.ok /\ ~o.consumed THEN Ok(<<>>, p, FALSE)
  ELSE sep_by_rest(s, <<>>, o)

\* .map(|tuples: Vec<_>| tuples.into_iter().collect())
option_map(t) == IF ~t.ok THEN t ELSE Ok(collect(t.value), t.pos, t.consumed)

option_list(s, p) ==
  Only({option_map(t) : t \in {sep_by(s, p, o) : o \in {option(s, p)}}})

\* The end of a header whose depth is d and whose title is t, after the
\* optional option list ol: skip_many(byte(' ')), byte('\n'), and the map
\* to a SectionHeader.
header_end(s, d, t, ol) ==
  IF ~ol.ok THEN Err("Unexpected", ol.errpos, TRUE)
  ELSE
    LET q5 == take_while({SPACE}, s, ol.pos) IN
    IF ~HasByte(s, q5, NEWLINE) THEN Err("Unexpected", q5, TRUE)
    ELSE Ok([depth |-> d, title |-> t, options |-> ol.value], q5 + 1, TRUE)

\* A header_options that wants an option once it has seen a space.
header_options_required(s, q, q3) ==
  IF q3 = q THEN Ok(EmptyMap, q, FALSE)
  ELSE Only({option_map(t) :
               t \in {sep_by_rest(s, <<>>, o) : o \in {option(s, q3)}}})

\* optional(skip_many1(byte(' ')).with(option_list)) at position q, the
\* spaces ending at q3.
header_options(s, q, q3) ==
  IF q3 = q THEN Ok(EmptyMap, q, FALSE) ELSE option_list(s, q3)

\* byte('#').with((depth, title.skip(byte(':')), optional(option_list)))
\*   .skip(skip_many(byte(' '))).skip(byte('\n'))
section_header(s, p) ==
  IF ~HasByte(s, p, HASH) THEN Err("Unexpected", p, FALSE)
  ELSE
    LET q1 == take_while({DOT}, s, p + 1)
        q2 == take_while(SectionHeaderChars, s, q1)
    IN
    IF ~HasByte(s, q2, COLON) THEN Err("Unexpected", q2, TRUE)
    ELSE Only({header_end(s, q1 - (p + 1), SubSeq(s, q1 + 1, q2), ol) :
                 ol \in {header_options(s, q2 + 1, q3) :
                           q3 \in {take_while({SPACE}, s, q2 + 1)}}})

--------------------------------------------------------------------------
\* Encoding::from_str: Some(encoding) for the two names, None otherwise.
from_str(v) ==
  IF v = vUtf8 THEN [some |-> TRUE, encoding |-> "Utf8"]
  ELSE IF v = vBinary THEN [some |-> TRUE, encoding |-> "Binary"]
  ELSE [some |-> FALSE]

is_digit(c) == c \in 48..57

RECURSIVE digits_value(_)
digits_value(ds) ==
  IF ds = <<>> THEN 0
  ELSE 10 * digits_value(SubSeq(ds, 1, Len(ds) - 1)) + (ds[Len(ds)] - 48)

\* The digits of usize::MAX, 18446744073709551615.
UsizeMaxDigits ==
  <<1, 8, 4, 4, 6, 7, 4, 4, 0, 7, 3, 7, 0, 9, 5, 5, 1, 6, 1, 5>>

\* ds (without leading zeros) is at most usize::MAX.
fits_usize(ds) ==
  \/ Len(ds) < Len(UsizeMaxDigits)
  \/ /\ Len(ds) = Len(UsizeMaxDigits)
     /\ \/ \A i \in DOMAIN ds : ds[i] - 48 = UsizeMaxDigits[i]
        \/ \E i \in DOMAIN ds :
             /\ ds[i] - 48 < UsizeMaxDigits[i]
             /\ \A j \in 1..(i - 1) : ds[j] - 48 = UsizeMaxDigits[j]

\* A value above every length of input the model holds: the stand-in for a
\* length of ten digits or more, which take can never satisfy.
TooLong == 1000000000

\* content_length.parse::<usize>(): an optional '+', then one or more
\* decimal digits, the value within usize.
parse_usize(v) ==
  LET ds == IF v # <<>> /\ v[1] = 43 THEN Tail(v) ELSE v
      nz == take_while({48}, ds, 0)
      sig == SubSeq(ds, nz + 1, Len(ds))
  IN
  IF ds = <<>> \/ \E i \in DOMAIN ds : ~is_digit(ds[i]) THEN [ok |-> FALSE]
  ELSE IF ~fits_usize(sig) THEN [ok |-> FALSE]
  ELSE [ok |-> TRUE, n |-> IF Len(sig) > 9 THEN TooLong ELSE digits_value(sig)]

is_cont(c) == c \in 128..191

\* str::from_utf8(bs).is_ok(): bs is a sequence of well-formed UTF-8
\* encodings (no overlong forms, no surrogates, nothing above U+10FFFF).
RECURSIVE from_utf8_ok(_)
from_utf8_ok(bs) ==
  IF bs = <<>> THEN TRUE
  ELSE
    LET b == bs[1]
        n == Len(bs)
        w == IF b <= 127 THEN 1
             ELSE IF b \in 194..223 THEN 2
             ELSE IF b \in 224..239 THEN 3
             ELSE IF b \in 240..244 THEN 4
             ELSE 0
    IN
    /\ w # 0
    /\ n >= w
    /\ w >= 2 =>
         /\ IF b = 224 THEN bs[2] \in 160..191
            ELSE IF b = 237 THEN bs[2] \in 128..159
            ELSE IF b = 240 THEN bs[2] \in 144..191
            ELSE IF b = 244 THEN bs[2] \in 128..143
            ELSE is_cont(bs[2])
         /\ \A i \in 3..w : is_cont(bs[i])
    /\ from_utf8_ok(SubSeq(bs, w + 1, n))

ChildSections(m) == [tag |-> "ChildSections", map |-> m]

EncodedData(bs) == [tag |-> "EncodedData", data |-> bs]

RawData(bs) == [tag |-> "RawData", data |-> bs]

Section(encoding, options, content) ==
  [encoding |-> encoding, options |-> options, content |-> content]

\* A take_content that reads the payload up to the next newline.
take_content_any_length(s, p, n, encoding) ==
  LET q == take_while(Bytes \ {NEWLINE}, s, p)
      bs == SubSeq(s, p + 1, q)
  IN
  IF encoding = "Utf8" /\ ~from_utf8_ok(bs) THEN Err("Utf8DecodeError", q, TRUE)
  ELSE IF ~HasByte(s, q, NEWLINE) THEN Err("Unexpected", q, TRUE)
  ELSE Ok(IF encoding = "Utf8" THEN EncodedData(bs) ELSE RawData(bs),
          q + 1, TRUE)

\* A take_content that leaves the payload as bytes under either encoding.
take_content_raw(s, p, n, encoding) ==
  IF p + n > Len(s) THEN Err("EndOfInput", p, FALSE)
  ELSE IF ~HasByte(s, p + n, NEWLINE) THEN Err("Unexpected", p + n, TRUE)
  ELSE Ok(RawData(SubSeq(s, p + 1, p + n)), p + n + 1, TRUE)

\* take(content_length).and_then(..).skip(byte('\n')) on the stream at p.
take_content(s, p, n, encoding) ==
  IF p + n > Len(s) THEN Err("EndOfInput", p, FALSE)
  ELSE
    LET bs == SubSeq(s, p + 1, p + n) IN
    IF encoding = "Utf8" /\ ~from_utf8_ok(bs)
    THEN Err("Utf8DecodeError", p + n, TRUE)
    ELSE IF ~HasByte(s, p + n, NEWLINE) THEN Err("Unexpected", p + n, TRUE)
    ELSE Ok(IF encoding = "Utf8" THEN EncodedData(bs) ELSE RawData(bs),
            p + n + 1, TRUE)

\* A resolve_encoding that always inherits.
resolve_ignoring_option(options, parent_encoding) ==
  [some |-> TRUE, encoding |-> parent_encoding]

\* The encoding of a section: its own option or the parent's encoding.
resolve_encoding(options, parent_encoding) ==
  IF kEncoding \in DOMAIN options THEN from_str(options[kEncoding])
  ELSE [some |-> TRUE, encoding |-> parent_encoding]

\* The content length of section_content: None, Some(n) or a parse error.
content_length(options) ==
  IF kContentLength \in DOMAIN options
  THEN LET r == parse_usize(options[kContentLength]) IN
       IF r.ok THEN [some |-> TRUE, ok |-> TRUE, n |-> r.n]
       ELSE [some |-> TRUE, ok |-> FALSE]
  ELSE [some |-> FALSE, ok |-> TRUE]

--------------------------------------------------------------------------
NoRet == [ok |-> FALSE, consumed |-> FALSE, kind |-> "none", errpos |-> 0]

NoCall == [depth |-> 0, parent_encoding |-> "Binary", start |-> 0]

Top == stack[Len(stack)]

\* A section call returns r to its caller.
Return(r) ==
  /\ ret' = r
  /\ call' = [depth |-> arg.depth, parent_encoding |-> arg.parent_encoding,
              start |-> pos]
  /\ pc' = "ret"
  /\ pos' = IF r.ok THEN r.pos ELSE pos
  /\ UNCHANGED <<arg, stack>>

\* The section call starts the loop many1(try(section(depth + 1, encoding))).
EnterChildren(h, encoding) ==
  /\ stack' = Append(stack, [depth |-> arg.depth,
                             parent_encoding |-> arg.parent_encoding,
                             start |-> pos,
                             title |-> h.value.title,
                             options |-> h.value.options,
                             encoding |-> encoding,
                             children |-> <<>>])
  /\ arg' = [depth |-> arg.depth + 1, parent_encoding |-> encoding]
  /\ pos' = h.pos
  /\ pc' = "call"
  /\ UNCHANGED <<ret, call>>

\* A section_data that returns the stream the header left.
section_data_stale(h, encoding, c) ==
  IF ~c.ok THEN Return(c)
  ELSE Return(Ok(<<h.value.title,
                   Section(encoding, h.value.options, c.value)>>,
                 h.pos, c.consumed))

\* The payload of a section with a content length, parsed as c, and the
\* Ok of section around it.
section_data(h, encoding, c) ==
  IF ~c.ok THEN Return(c)
  ELSE Return(Ok(<<h.value.title,
                   Section(encoding, h.value.options, c.value)>>,
                 c.pos, c.consumed))

\* A section_content that reports a bad length where the header started.
section_content_header_start(h, encoding, cl) ==
  IF ~cl.ok THEN Return(Err("InvalidContentLength", pos, TRUE))
  ELSE IF cl.some
  THEN \E c \in {take_content(input, h.pos, cl.n, encoding)} :
         section_data(h, encoding, c)
  ELSE EnterChildren(h, encoding)

\* section_content for the header h, on the stream right after the header.
section_content(h, encoding, cl) ==
  IF ~cl.ok THEN Return(Err("InvalidContentLength", h.pos, TRUE))
  ELSE IF cl.some
  THEN \E c \in {take_content(input, h.pos, cl.n, encoding)} :
         section_data(h, encoding, c)
  ELSE EnterChildren(h, encoding)

\* The encoding of the section, and then its content.
section_encoding(h, e) ==
  IF ~e.some THEN Return(Err("UnknownEncoding", pos, TRUE))
  ELSE \E cl \in {content_length(h.value.options)} :
         section_content(h, e.encoding, cl)

\* A section_depth whose depth error has consumed nothing.
section_depth_empty(h) ==
  IF ~h.ok THEN Return(h)
  ELSE IF h.value.depth # arg.depth
  THEN Return(Err("DepthMismatch", pos, FALSE))
  ELSE \E e \in {resolve_encoding(h.value.options, arg.parent_encoding)} :
         section_encoding(h, e)

\* The section whose header parsed as h.
section_depth(h) ==
  IF ~h.ok THEN Return(h)
  ELSE IF h.value.depth # arg.depth THEN Return(Err("DepthMismatch", pos, TRUE))
  ELSE \E e \in {resolve_encoding(h.value.options, arg.parent_encoding)} :
         section_encoding(h, e)

\* DiffxParser::section up to the content of the section: the header, the
\* depth check, the encoding, and section_content up to its loop.
section ==
  /\ pc = "call"
  /\ \E h \in {section_header(input, pos)} : section_depth(h)
  /\ UNCHANGED <<input, result>>

\* try(p): a failure of p is a failure that consumed nothing.
try(r) == IF r.ok THEN r ELSE Err(r.kind, r.errpos, FALSE)

\* The loop has parsed a child: it keeps it and tries the next one.
many1_next(r) ==
  /\ stack' = [stack EXCEPT ![Len(stack)].children = Append(@, r.value)]
  /\ arg' = [depth |-> Top.depth + 1, parent_encoding |-> Top.encoding]
  /\ pc' = "call"
  /\ UNCHANGED <<pos, ret, call>>

\* The loop ends and the enclosing section returns r.
many1_return(r) ==
  /\ stack' = SubSeq(stack, 1, Len(stack) - 1)
  /\ arg' = [depth |-> Top.depth, parent_encoding |-> Top.parent_encoding]
  /\ call' = [depth |-> Top.depth, parent_encoding |-> Top.parent_encoding,
              start |-> Top.start]
  /\ pc' = "ret"
  /\ ret' = r
  /\ UNCHANGED pos

\* The section of the innermost loop, with the children the loop kept.
many1_section ==
  Ok(<<Top.title,
       Section(Top.encoding, Top.options, ChildSections(collect(Top.children)))>>,
     pos, TRUE)

\* A loop that accepts no child at all: many in place of many1.
many0_turn(r) ==
  IF r.ok THEN many1_next(r)
  ELSE IF r.consumed THEN many1_return(r)
  ELSE many1_return(many1_section)

\* One turn of the loop on the result r of try(section(..)): a child is
\* kept; an error that consumed input is the error of the loop; any other
\* error ends the loop, which wants one child at least.
many1_turn(r) ==
  IF r.ok THEN many1_next(r)
  ELSE IF r.consumed \/ Top.children = <<>> THEN many1_return(r)
  ELSE many1_return(many1_section)

\* One turn of many1(try(section(..))) in section_content, and the rest of
\* the enclosing section once the loop ends.
many1 ==
  /\ pc = "ret"
  /\ stack # <<>>
  /\ \E r \in {try(ret)} : many1_turn(r)
  /\ UNCHANGED <<input, result>>

\* Parser::parse: the value and the rest of the input, or the error.
parse ==
  /\ pc = "ret"
  /\ stack = <<>>
  /\ result' = IF ret.ok
               THEN [ok |-> TRUE, title |-> ret.value[1],
                     section |-> ret.value[2],
                     rest |-> SubSeq(input, ret.pos + 1, Len(input))]
               ELSE [ok |-> FALSE, kind |-> ret.kind, errpos |-> ret.errpos]
  /\ pc' = "done"
  /\ UNCHANGED <<input, arg, pos, stack, ret, call>>

--------------------------------------------------------------------------
\* The inputs of the model.  A document is a root header followed by up to
\* MaxItems items, each a header line with or without a payload; a payload
\* document is one header with a content-length and up to MaxPayload bytes
\* after it.

MaxItems == 3

MaxPayload == 3

\* #a:\n
RootPlain ==
  <<35, 97, 58, 10>>

\* #a: encoding=utf-8\n
RootUtf8 ==
  <<35, 97, 58, 32, 101, 110, 99, 111, 100, 105, 110, 103, 61, 117, 116, 102, 45, 56, 10>>

\* #.a:\n
RootDeep ==
  <<35, 46, 97, 58, 10>>

\* #.b:\n
ItemGroup ==
  <<35, 46, 98, 58, 10>>

\* #.b: encoding=binary\n
ItemGroupBinary ==
  <<35, 46, 98, 58, 32, 101, 110, 99, 111, 100, 105, 110, 103, 61, 98, 105, 110, 97, 114, 121, 10>>

\* #.b: content-length=0\n\n
ItemEmpty ==
  <<35, 46, 98, 58, 32, 99, 111, 110, 116, 101, 110, 116, 45, 108, 101, 110, 103, 116, 104, 61, 48, 10, 10>>

\* #.c: encoding=utf-8,content-length=1\nx\n
ItemText ==
  <<35, 46, 99, 58, 32, 101, 110, 99, 111, 100, 105, 110, 103, 61, 117, 116, 102, 45, 56, 44, 99, 111, 110, 116, 101, 110, 116, 45, 108, 101, 110, 103, 116, 104, 61, 49, 10, 120, 10>>

\* #.b: content-length=0,content-length=1\n#\n
ItemHash ==
  <<35, 46, 98, 58, 32, 99, 111, 110, 116, 101, 110, 116, 45, 108, 101, 110, 103, 116, 104, 61, 48, 44, 99, 111, 110, 116, 101, 110, 116, 45, 108, 101, 110, 103, 116, 104, 61, 49, 10, 35, 10>>

\* #..c: content-length=0\n\n
ItemNested ==
  <<35, 46, 46, 99, 58, 32, 99, 111, 110, 116, 101, 110, 116, 45, 108, 101, 110, 103, 116, 104, 61, 48, 10, 10>>

\* #.c: content-length=abc\n
ItemBadLength ==
  <<35, 46, 99, 58, 32, 99, 111, 110, 116, 101, 110, 116, 45, 108, 101, 110, 103, 116, 104, 61, 97, 98, 99, 10>>

\* #.c: encoding=latin-1,content-length=0\n\n
ItemBadEncoding ==
  <<35, 46, 99, 58, 32, 101, 110, 99, 111, 100, 105, 110, 103, 61, 108, 97, 116, 105, 110, 45, 49, 44, 99, 111, 110, 116, 101, 110, 116, 45, 108, 101, 110, 103, 116, 104, 61, 48, 10, 10>>

\* #.c: content-length=2\nx\n
ItemShort ==
  <<35, 46, 99, 58, 32, 99, 111, 110, 116, 101, 110, 116, 45, 108, 101, 110, 103, 116, 104, 61, 50, 10, 120, 10>>

\* \n
ItemBlank ==
  <<10>>

Roots == {RootPlain, RootUtf8, RootDeep}

Items ==
  {ItemGroup,
   ItemGroupBinary,
   ItemEmpty,
   ItemText,
   ItemHash,
   ItemNested,
   ItemBadLength,
   ItemBadEncoding,
   ItemShort,
   ItemBlank}

RECURSIVE Concat(_)
Concat(ss) == IF ss = <<>> THEN <<>> ELSE Head(ss) \o Concat(Tail(ss))

Documents ==
  {r \o Concat(is) :
     r \in Roots, is \in UNION {[1..n -> Items] : n \in 0..MaxItems}}

\* The header of a payload document up to its content-length value:
\* "#a: content-length=", with or without an encoding in front.
LengthHeads ==
  {<<35, 97, 58, 32, 99, 111, 110, 116, 101, 110, 116, 45, 108, 101, 110, 103, 116, 104, 61>>,
   <<35, 97, 58, 32, 101, 110, 99, 111, 100, 105, 110, 103, 61, 117, 116, 102, 45, 56, 44, 99, 111, 110, 116, 101, 110, 116, 45, 108, 101, 110, 103, 116, 104, 61>>,
   <<35, 97, 58, 32, 101, 110, 99, 111, 100, 105, 110, 103, 61, 98, 105, 110, 97, 114, 121, 44, 99, 111, 110, 116, 101, 110, 116, 45, 108, 101, 110, 103, 116, 104, 61>>}

\* The values of content-length: "0", "1", "2", "02", "abc", "-1", "1.0", "9,content-length=1".
LengthValues ==
  {<<48>>,
   <<49>>,
   <<50>>,
   <<48, 50>>,
   <<97, 98, 99>>,
   <<45, 49>>,
   <<49, 46, 48>>,
   <<57, 44, 99, 111, 110, 116, 101, 110, 116, 45, 108, 101, 110, 103, 116, 104, 61, 49>>}

\* The bytes of a payload: "x", "#", "\n", and the two bytes of U+00E9.
PayloadBytes == {120, 35, 10, 195, 169}

PayloadDocuments ==
  {h \o v \o <<NEWLINE>> \o bs :
     h \in LengthHeads, v \in LengthValues,
     bs \in UNION {[1..n -> PayloadBytes] : n \in 0..MaxPayload}}

Init ==
  /\ input \in Documents \cup PayloadDocuments
  /\ pc = "call"
  /\ arg = [depth |-> 0, parent_encoding |-> "Binary"]
  /\ pos = 0
  /\ stack = <<>>
  /\ ret = NoRet
  /\ call = NoCall
  /\ result = NoRet

Next == section \/ many1 \/ parse

Spec == Init /\ [][Next]_vars

\* The parse cannot stop before it has returned.
FairSpec == Spec /\ WF_vars(Next)

--------------------------------------------------------------------------
\* The header parser on its own, as tests::test_section_header runs it: on
\* "#", d dots, a title, ":", some spaces and a newline, and a byte or none
\* after the line.

MaxDots == 3

MaxTitle == 2

MaxSpaces == 2

TitleBytes == {97, 90, 45}

HeaderLines ==
  {<<HASH>> \o [i \in 1..d |-> DOT] \o t \o <<COLON>>
     \o [i \in 1..n |-> SPACE] \o <<NEWLINE>> \o x :
     d \in 0..MaxDots,
     t \in UNION {[1..k -> TitleBytes] : k \in 0..MaxTitle},
     n \in 0..MaxSpaces,
     x \in {<<>>, <<120>>}}

InitHeader ==
  /\ input \in HeaderLines
  /\ pc = "header"
  /\ arg = [depth |-> 0, parent_encoding |-> "Binary"]
  /\ pos = 0
  /\ stack = <<>>
  /\ ret = NoRet
  /\ call = NoCall
  /\ result = NoRet

\* parser(DiffxParser::section_header).parse(input)
test_section_header ==
  /\ pc = "header"
  /\ ret' = section_header(input, 0)
  /\ pos' = IF ret'.ok THEN ret'.pos ELSE pos
  /\ pc' = "header_done"
  /\ UNCHANGED <<input, arg, stack, call, result>>

SpecHeader == InitHeader /\ [][test_section_header]_vars

--------------------------------------------------------------------------
\* What the properties below read off a state.

\* The header of the section call that returned last, parsed again from
\* where that call started.
CallHeader == section_header(input, call.start)

\* That call got past its header and its depth check.
CallHeaderFits == CallHeader.ok /\ CallHeader.value.depth = call.depth

\* The encoding an options mapping names, "none" for an unknown name.
NamedEncoding(options, inherited) ==
  IF kEncoding \notin DOMAIN options THEN inherited
  ELSE IF options[kEncoding] = vUtf8 THEN "Utf8"
  ELSE IF options[kEncoding] = vBinary THEN "Binary"
  ELSE "none"

\* A section call has just returned, and it was the call of a section
\* whose header fits, names a known encoding and has a content-length.
ReturnedWithLength ==
  /\ pc = "ret"
  /\ CallHeaderFits
  /\ NamedEncoding(CallHeader.value.options, call.parent_encoding) # "none"
  /\ kContentLength \in DOMAIN CallHeader.value.options

\* v is written as decimal digits only.
AllDigits(v) == v # <<>> /\ \A i \in DOMAIN v : v[i] \in 48..57

\* The sections of a tree, each with the encoding of its parent: the set of
\* <<section, inherited encoding>> pairs.
RECURSIVE Sections(_, _)
Sections(sec, inherited) ==
  {<<sec, inherited>>} \cup
    (IF sec.content.tag = "ChildSections"
     THEN UNION {Sections(sec.content.map[t], sec.encoding) :
                   t \in DOMAIN sec.content.map}
     ELSE {})

\* The sections of the tree a finished, successful parse returned.
ParsedSections ==
  IF pc = "done" /\ result.ok THEN Sections(result.section, "Binary") ELSE {}

--------------------------------------------------------------------------
\* C1: in the tree of a successful parse section(0, Binary), every section
\* has the encoding its own encoding option names, and without that option
\* the encoding of its parent; the root without the option is Binary.
C1_EncodingResolved ==
  \A x \in ParsedSections : x[1].encoding = NamedEncoding(x[1].options, x[2])

\* A tree whose root names utf-8, with a child that names binary and a
\* grandchild under it that names nothing and is Binary.
C1_Witness ==
  /\ pc = "done" /\ result.ok
  /\ result.section.encoding = "Utf8"
  /\ \E x \in ParsedSections :
       /\ x[2] = "Utf8"
       /\ x[1].encoding = "Binary"
       /\ x[1].content.tag = "ChildSections"
       /\ \E t \in DOMAIN x[1].content.map :
            /\ kEncoding \notin DOMAIN x[1].content.map[t].options
            /\ x[1].content.map[t].encoding = "Binary"

\* C2: the form of a section's content follows from its options and its
\* encoding: ChildSections exactly without content-length, EncodedData
\* exactly with content-length under Utf8, RawData exactly with
\* content-length under Binary; a content-length of 0 gives empty data.
C2_ContentForm ==
  \A x \in ParsedSections :
    LET sec == x[1]
        has == kContentLength \in DOMAIN sec.options
    IN
    /\ sec.content.tag \in {"ChildSections", "EncodedData", "RawData"}
    /\ (sec.content.tag = "ChildSections") <=> ~has
    /\ (sec.content.tag = "EncodedData") <=> (has /\ sec.encoding = "Utf8")
    /\ (sec.content.tag = "RawData") <=> (has /\ sec.encoding = "Binary")
    /\ (has /\ sec.options[kContentLength] = <<48>>) =>
         (sec.content.tag # "ChildSections" /\ sec.content.data = <<>>)

\* A tree with the three forms in it, the RawData of a content-length of 0.
C2_Witness ==
  /\ \E x \in ParsedSections : x[1].content.tag = "ChildSections"
  /\ \E x \in ParsedSections :
       x[1].content.tag = "EncodedData" /\ x[1].content.data # <<>>
  /\ \E x \in ParsedSections :
       /\ x[1].content.tag = "RawData"
       /\ x[1].options[kContentLength] = <<48>>
       /\ x[1].content.data = <<>>

\* C3: a section with content-length = n takes the n bytes after its
\* header as its payload, whatever they are, and the one newline after
\* them; with fewer than n bytes left, or another byte after the payload,
\* the section fails.
C3_ExactPayload ==
  (ReturnedWithLength /\ AllDigits(CallHeader.value.options[kContentLength])) =>
    LET n == digits_value(CallHeader.value.options[kContentLength])
        from == CallHeader.pos
    IN
    /\ ret.ok =>
         /\ ret.value[2].content.data = SubSeq(input, from + 1, from + n)
         /\ Len(ret.value[2].content.data) = n
         /\ input[from + n + 1] = NEWLINE
         /\ ret.pos = from + n + 1
    /\ (from + n >= Len(input) \/ input[from + n + 1] # NEWLINE) => ~ret.ok

\* A payload of two bytes, "#" and a newline, taken whole.
C3_Witness ==
  /\ ReturnedWithLength
  /\ CallHeader.value.options[kContentLength] = <<50>>
  /\ ret.ok
  /\ ret.value[2].content.data = <<HASH, NEWLINE>>
  /\ ret.pos = CallHeader.pos + 3

\* The sections of the tree of a returned section have a child each where
\* they hold child sections.
ChildrenNonEmpty ==
  (pc = "ret" /\ ret.ok) =>
    \A x \in Sections(ret.value[2], call.parent_encoding) :
      x[1].content.tag = "ChildSections" => DOMAIN x[1].content.map # {}

\* The loop ends on its first child: the enclosing section fails.
NoChildFails ==
  (pc = "ret" /\ stack # <<>> /\ ~ret.ok /\ Top.children = <<>>) =>
    (pc' = "ret" /\ ~ret'.ok /\ call'.start = Top.start)

\* C4: a section without content-length whose loop parsed no child fails;
\* no ChildSections of a returned tree is empty.
C4_MissingContent == [][NoChildFails]_vars /\ []ChildrenNonEmpty

\* A section without content-length has failed, its header parsed and its
\* encoding known: it had no child.
C4_Witness ==
  /\ pc = "ret" /\ ~ret.ok
  /\ CallHeaderFits
  /\ NamedEncoding(CallHeader.value.options, call.parent_encoding) # "none"
  /\ kContentLength \notin DOMAIN CallHeader.value.options
  /\ call.depth = 1

\* A child attempt of the innermost loop has failed on input it had
\* consumed, on anything but the depth of a well-formed header: on a
\* malformed header, an unknown encoding, a bad content-length or a
\* payload that is short or lacks its newline.
ChildFailedCommitted ==
  /\ pc = "ret" /\ stack # <<>> /\ ~ret.ok
  /\ ret.kind # "DepthMismatch"
  /\ ret.consumed \/ CallHeader.ok

\* C5: a child attempt that fails after it consumed input makes the
\* enclosing section fail, also after earlier children.
C5_CommittedFailurePropagates ==
  [][ChildFailedCommitted => (pc' = "ret" /\ ~ret'.ok)]_vars

\* C6: a section call at depth d on a well-formed header of another depth
\* fails with a depth mismatch that has consumed input, at the position
\* where the header started.
C6_DepthMismatch ==
  (pc = "ret" /\ CallHeader.ok /\ CallHeader.value.depth # call.depth) =>
    /\ ~ret.ok
    /\ ret.kind = "DepthMismatch"
    /\ ret.consumed
    /\ ret.errpos = call.start

\* A header of depth 2 where depth 1 was expected, away from the start of
\* the input.
C6_Witness ==
  /\ pc = "ret"
  /\ call.depth = 1
  /\ call.start > 0
  /\ CallHeader.ok
  /\ CallHeader.value.depth = 2
  /\ ~ret.ok
  /\ ret.kind = "DepthMismatch"

\* The section call that returned last had a content-length that is not
\* written as a non-negative integer.
ReturnedWithBadLength ==
  /\ ReturnedWithLength
  /\ ~AllDigits(CallHeader.value.options[kContentLength])

\* The offset of the value of the last content-length option of the header
\* of that call.
LengthValueOffset ==
  LET key == <<SPACE>> \o kContentLength \o <<EQUALS>>
      alt == <<COMMA>> \o kContentLength \o <<EQUALS>>
      at == {q \in (call.start + Len(key))..CallHeader.pos :
               SubSeq(input, q - Len(key) + 1, q) \in {key, alt}}
  IN CHOOSE q \in at : \A r \in at : r <= q

\* C7 as stated: a content-length that is no non-negative integer fails
\* with InvalidContentLength at the offset of the option's value.
C7_ErrorAtValue ==
  ReturnedWithBadLength =>
    /\ ~ret.ok
    /\ ret.kind = "InvalidContentLength"
    /\ ret.errpos = LengthValueOffset

\* C7 as the code has it: the error is at the start of the section's
\* content, the first position after the newline of the header.
C7_ErrorAtContent ==
  ReturnedWithBadLength =>
    /\ ~ret.ok
    /\ ret.kind = "InvalidContentLength"
    /\ ret.consumed
    /\ ret.errpos = CallHeader.pos

\* The length "1.0" has failed, in a header with bytes after it.
C7_Witness ==
  /\ ReturnedWithBadLength
  /\ CallHeader.value.options[kContentLength] = <<49, 46, 48>>
  /\ ret.kind = "InvalidContentLength"
  /\ CallHeader.pos < Len(input)

\* The tuples of the option list of the header of the call that returned
\* last, in the order of the input.
CallTuples ==
  LET colon == take_while(Bytes \ {COLON}, input, call.start)
      q3 == take_while({SPACE}, input, colon + 1)
      t == Only({sep_by(input, q3, o) : o \in {option(input, q3)}})
  IN IF q3 = colon + 1 \/ ~t.ok THEN <<>> ELSE t.value

\* m is the pairs of the sequence, each key with the value of its last pair.
LastWins(m, pairs) ==
  /\ DOMAIN m = {pairs[i][1] : i \in DOMAIN pairs}
  /\ \A i \in DOMAIN pairs :
       (\A j \in DOMAIN pairs : pairs[j][1] = pairs[i][1] => j <= i)
         => m[pairs[i][1]] = pairs[i][2]

OptionsLastWins ==
  (pc = "ret" /\ ret.ok) => LastWins(ret.value[2].options, CallTuples)

ChildrenLastWins ==
  (pc = "ret" /\ stack # <<>> /\ ~ret.ok /\ Top.children # <<>>) =>
    /\ ret'.ok
    /\ ret'.value[2].content.tag = "ChildSections"
    /\ LastWins(ret'.value[2].content.map, Top.children)

\* C8: the options of a section hold, for a key given more than once, the
\* value of its last pair, and the children of a section hold, for a title
\* given more than once, its last section; no duplicate is an error.
C8_LastWins == []OptionsLastWins /\ [][ChildrenLastWins]_vars

\* Two children "b", the second with two content-length options, 0 and then
\* 1: the tree holds the second child, with the length 1 and the payload "#".
C8_Witness ==
  /\ pc = "done" /\ result.ok
  /\ input = RootPlain \o ItemEmpty \o ItemHash \o ItemBlank
  /\ result.section.content.map[<<98>>].options[kContentLength] = <<49>>
  /\ result.section.content.map[<<98>>].content.data = <<HASH>>

\* C9: on "#", d dots, a title over [A-Za-z-], ":", any number of spaces
\* and a newline, the header parser returns depth d, that title and no
\* options, and has consumed the line.
C9_HeaderRoundTrip ==
  pc = "header_done" =>
    \A d \in 0..MaxDots, n \in 0..MaxSpaces, x \in {<<>>, <<120>>} :
      \A t \in UNION {[1..k -> TitleBytes] : k \in 0..MaxTitle} :
        LET line == <<HASH>> \o [i \in 1..d |-> DOT] \o t \o <<COLON>>
                      \o [i \in 1..n |-> SPACE] \o <<NEWLINE>>
        IN input = line \o x =>
             /\ ret.ok
             /\ ret.value = [depth |-> d, title |-> t, options |-> EmptyMap]
             /\ ret.pos = Len(line)

\* The empty title at depth 2 with two spaces after the colon and a byte
\* after the line.
C9_Witness ==
  /\ pc = "header_done"
  /\ input = <<HASH, DOT, DOT, COLON, SPACE, SPACE, NEWLINE, 120>>
  /\ ret.ok
  /\ ret.value.depth = 2
  /\ ret.value.title = <<>>

\* A section that returns Ok has consumed its header and at least one byte
\* more, within the input.
ReturnAdvances ==
  (pc = "ret" /\ ret.ok) =>
    /\ CallHeader.ok
    /\ CallHeader.pos >= call.start + 3
    /\ ret.pos > CallHeader.pos
    /\ ret.pos <= Len(input)

\* A turn of the loop that kept a child starts the next attempt further on.
LoopAdvances ==
  (pc = "ret" /\ stack # <<>> /\ ret.ok) => (pc' = "call" /\ pos' > call.start)

\* parse returns an error, or a value with a rest that is a suffix of the
\* input.
ParseEnds ==
  pc = "done" =>
    (result.ok =>
       \E k \in 0..Len(input) : result.rest = SubSeq(input, k + 1, Len(input)))

====
